---- MODULE Spec2Model ----
(***************************************************************************)
(* Intent lifecycle and settlement engine of project_silence, as           *)
(* implemented twice: the Solana program                                   *)
(* (src/programs/project_silence/src/lib.rs) and the NEAR contract         *)
(* (src/silence-near-contracts/silence-bridge/src/lib.rs).                 *)
(*                                                                         *)
(* Every public instruction/method is one atomic action.  A call whose     *)
(* require!/assert!/account constraint fails aborts the transaction, so    *)
(* it is a disabled action: the guard of each action is the conjunction    *)
(* of the checks the code makes, in the code's order.                      *)
(*                                                                         *)
(* The variable host selects the implementation a behaviour runs on; all   *)
(* other variables are that deployment's on-chain state.                   *)
(***************************************************************************)
EXTENDS Integers, Sequences, FiniteSets, TLC

VARIABLES
    host,       \* "solana" | "near": which implementation is deployed
    config,     \* BridgeConfig / the scalar fields of SilenceBridgeRegistry
    intents,    \* map intent_id -> Intent (the intent PDAs / self.intents)
    solvers,    \* map account -> Solver (the solver PDAs / self.solvers)
    escrow,     \* funds in custody, by EscrowKey
    now,        \* Clock::get().unix_timestamp / env::block_timestamp()
    paid,       \* per intent: the transfers made out of custody on its account
    matched,    \* per intent: number of IntentMatched events / "matched" logs
    last,       \* the last accepted call: [op, caller (signer/predecessor), id]
    pipeline,   \* SpecRep only: the solver's current intent, [count, status]
    gate,       \* the confidential computations: [pending, range_proved]
    calc,       \* SpecCalc only: the last circuit evaluated, [fn, args, out]
    index       \* NEAR: the vectors active_solvers, intents_by_creator/_solver

vars == <<host, config, intents, solvers, escrow, now, paid, matched, last, pipeline, gate,
          calc, index>>

(***************************************************************************)
(* Modelling notes.                                                        *)
(*                                                                         *)
(* Time.  Solana timestamps are i64 seconds.  NEAR timestamps are u64      *)
(* nanoseconds and create_intent adds ttl_seconds * 1_000_000_000; the     *)
(* model counts NEAR time in units of 10^9 ns, so that product is          *)
(* ttl_seconds units and every comparison of the code is kept.             *)
(*                                                                         *)
(* Custody.  On Solana each intent has its own intent_vault account; the   *)
(* handlers debit it with `-=` on its lamports.  A debit larger than the   *)
(* balance cannot commit (it panics in a build with overflow checks and    *)
(* leaves the instruction unbalanced otherwise), so the debit is guarded   *)
(* by balance >= amount.  On NEAR all deposits and stakes sit on the       *)
(* contract's own account and Promise::transfer spends from it; a transfer *)
(* larger than the balance makes the call fail.                            *)
(*                                                                         *)
(* Widths.  NEAR's settle_intent multiplies a u128 amount by the u32 fee   *)
(* with the unchecked `*`.  The width of that type is U128Bits, explored   *)
(* at 24 bits in place of 128 with amounts and fees scaled alike: as at    *)
(* full width, no modelled amount overflows with a fee of at most 1000     *)
(* bps, and an amount near the top of the range overflows with a larger    *)
(* fee (new() accepts any u32).  Solana's settle_intent widens a u64       *)
(* amount and the u16 fee to u128 and multiplies with checked_mul; u64 is  *)
(* explored at U64Bits = 14 bits, so that, as at full width, the largest   *)
(* amount times 1000 fits u128.  All other counters stay far below their   *)
(* widths within the explored bounds.                                      *)
(***************************************************************************)

-----------------------------------------------------------------------------
(* Bounds of the exploration *)

\* Number of intent ids in use (Spec)
MaxIntents == 1
\* Last value of the clock
MaxTime == 1
\* Modelled width of u128
U128Bits == 24
\* Modelled width of u64: as at full width, the largest u64 times 1000
\* fits the modelled u128
U64Bits == 14
\* SpecRep: number of intents the solver works through, and of failures
MaxRepIntents == 903
MaxRepFails == 1
\* Number of confidential computations queued and not yet called back
MaxPending == 1
\* SpecPool: number of intent ids in use
MaxPoolIntents == 2
\* Modelled width of u32
U32Bits == 16

-----------------------------------------------------------------------------
(* Universe of inputs *)

Hosts == {"solana", "near"}
Accounts == {"owner", "alice", "s1", "s2"}
NoAccount == "none"
Creators == {"alice"}
SolverAccounts == {"s1", "s2"}
IntentIds == 1..MaxIntents
NoTime == -1
NoHash == "zero"
TxHashes == {"h1"}
ProofInputs == {NoHash, "p1"}

MinSolverStake == 10000
StakeInputs == {MinSolverStake - 1, MinSolverStake}
FeeInputs == {1000, 1001}

\* generate_privacy_proof arguments: the (encrypted) amount and max_amount
ProofRequests ==
    {[amount |-> 10001, max_amount |-> 10000], [amount |-> 10001, max_amount |-> 20000]}

\* ComputationOutputs delivered to a callback
GateOutputs == {"Success", "Failure"}

\* protocol_fee_bps values handed to initialize_bridge / new
InitFees(h) == IF h = "solana" THEN {250} ELSE {250, 1024}

\* supported_chains arguments: a u8 bitmap on Solana, a Vec<Chain> on NEAR
ChainInputs(h) ==
    IF h = "solana" THEN {0, 3, 4}
    ELSE {<<>>, <<"Zcash">>, <<"Near", "Zcash">>}

\* ttl_seconds arguments: an i64 on Solana, a u64 on NEAR; neither handler
\* checks the value
TtlInputs(h) == IF h = "solana" THEN {-1, 0, 1} ELSE {0, 1}

\* create_intent arguments
CreateInputs(h) ==
    {[destination_chain |-> "Zcash", source_amount |-> 10001, is_shielded |-> TRUE, ttl_seconds |-> 1],
     [destination_chain |-> "Near", source_amount |-> 0, is_shielded |-> FALSE, ttl_seconds |-> 1],
     [destination_chain |-> "Near", is_shielded |-> FALSE, ttl_seconds |-> 1,
      source_amount |-> IF h = "solana" THEN 10000 ELSE 16384]}
    \cup {[destination_chain |-> "Near", source_amount |-> 10000, is_shielded |-> FALSE,
           ttl_seconds |-> ttl] : ttl \in TtlInputs(h) \ {1}}

-----------------------------------------------------------------------------
(* Helpers *)

RECURSIVE Pow2(_)
Pow2(n) == IF n = 0 THEN 1 ELSE 2 * Pow2(n - 1)

\* Number of values of the NEAR amount type (u128), at the modelled width
U128Modulus == Pow2(U128Bits)
U64Modulus == Pow2(U64Bits)

\* source_chain is fixed to the hosting chain
HostChain(h) == IF h = "solana" THEN "Solana" ELSE "Near"

\* dest_chain_bit of match_intent (bit 0=Solana, 1=Near, 2=Zcash)
ChainBit(c) == CASE c = "Solana" -> 1 [] c = "Near" -> 2 [] c = "Zcash" -> 4

\* (mask & bit) != 0 for a one-bit value
HasBit(mask, bit) == (mask \div bit) % 2 = 1

\* Vec::contains
VecContains(v, x) == \E k \in DOMAIN v : v[k] = x

\* Where the funds of intent i are held: the intent_vault PDA of i on Solana,
\* the contract's own account (key 0) on NEAR
EscrowKey(i) == IF host = "solana" THEN i ELSE 0

\* Account that receives the protocol fee
FeeDestination == IF host = "solana" THEN config.fee_vault ELSE config.owner

NoPayout == [reward |-> 0, fee |-> 0, refund |-> 0,
             reward_to |-> NoAccount, fee_to |-> NoAccount, refund_to |-> NoAccount]

Call(op, caller, id) == [op |-> op, caller |-> caller, id |-> id]

-----------------------------------------------------------------------------
(* Pure computations *)

\* The capability check of match_intent
ChainsSupported(h, caps, source_chain, destination_chain) ==
    IF h = "solana"
    THEN HasBit(caps, ChainBit(destination_chain))
    ELSE VecContains(caps, source_chain) /\ VecContains(caps, destination_chain)

\* supported_chains > 0 / !supported_chains.is_empty()
ChainsNonEmpty(h, caps) == IF h = "solana" THEN caps > 0 ELSE Len(caps) > 0

\* The fee/reward split of settle_intent.  ok = FALSE when the computation
\* aborts the call.
\* Solana: the u128 product of a u64 and a u16 cannot overflow, and
\* checked_sub returns ErrorCode::Overflow when the fee exceeds the amount.
\* NEAR: `*` and `-` on u128 are unchecked operators; a build with overflow
\* checks panics (the call is rejected, no step), a build without them
\* continues with the wrapped value.  The split is the one of the wrapping
\* build, `wrapped` tells that a checked build would have rejected the call.
SettlementSplit(h, amount, bps) ==
    IF h = "solana"
    THEN LET raw == amount * bps
             fee == ((raw % U128Modulus) \div 10000) % U64Modulus
         IN  IF raw < U128Modulus /\ fee <= amount
             THEN [ok |-> TRUE, wrapped |-> FALSE,
                   protocol_fee |-> fee, solver_reward |-> amount - fee]
             ELSE [ok |-> FALSE, wrapped |-> FALSE,
                   protocol_fee |-> fee, solver_reward |-> 0]
    ELSE LET raw == amount * bps
             fee == (raw % U128Modulus) \div 10000
             reward == IF fee > amount THEN amount - fee + U128Modulus ELSE amount - fee
         IN  [ok |-> TRUE, wrapped |-> (raw >= U128Modulus) \/ (fee > amount),
              protocol_fee |-> fee, solver_reward |-> reward]

\* range_valid of the generate_privacy_proof circuit
RangeValid(amount, max_amount) == amount <= max_amount

\* A sequence without its k-th element
RemoveAt(q, k) == [j \in 1..(Len(q) - 1) |-> IF j < k THEN q[j] ELSE q[j + 1]]

\* solver.reputation_score after a settlement
ReputationAfterSettle(h, score) == score + 1

\* solver.reputation_score.saturating_sub(5)
ReputationAfterFail(score) == IF score >= 5 THEN score - 5 ELSE 0

\* The solver record after a settle_intent that does not count the volume
SolverAfterSettleNoVolume(h, s, amount) ==
    [s EXCEPT !.total_intents_executed = @ + 1,
              !.successful_intents = @ + 1,
              !.reputation_score = ReputationAfterSettle(h, @)]

\* The solver record after settle_intent / fail_intent
SolverAfterSettle(h, s, amount) ==
    [s EXCEPT !.total_intents_executed = @ + 1,
              !.successful_intents = @ + 1,
              !.total_volume = @ + amount,
              !.reputation_score = ReputationAfterSettle(h, @)]

SolverAfterFail(s) ==
    [s EXCEPT !.failed_intents = @ + 1,
              !.reputation_score = ReputationAfterFail(@)]

-----------------------------------------------------------------------------
(* Initial state: right after initialize_bridge / new *)

\* The index vectors of the NEAR contract after new(): empty (a missing
\* LookupMap entry reads as the empty vector, unwrap_or_default)
NoIndex ==
    [active_solvers |-> <<>>,
     intents_by_creator |-> [a \in Accounts |-> <<>>],
     intents_by_solver |-> [a \in Accounts |-> <<>>]]

Init ==
    /\ host \in Hosts
    /\ \E fee \in InitFees(host) :
          config = [owner |-> "owner",
                    min_solver_stake |-> MinSolverStake,
                    protocol_fee_bps |-> fee,
                    total_volume |-> 0,
                    total_intents |-> 0,
                    active_solvers |-> 0,
                    fee_vault |-> "owner"]
    /\ intents = <<>>
    /\ solvers = [a \in {} |-> 0]
    /\ escrow = [k \in 0..MaxIntents |-> 0]
    /\ now = 0
    /\ paid = [i \in IntentIds |-> NoPayout]
    /\ matched = [i \in IntentIds |-> 0]
    /\ last = Call("init", NoAccount, 0)
    /\ pipeline = [count |-> 0, status |-> "None"]
    /\ gate = [pending |-> <<>>, range_proved |-> FALSE]
    /\ calc = [fn |-> "none", args |-> <<>>, out |-> <<>>]
    /\ index = NoIndex

-----------------------------------------------------------------------------
(* Operations *)

\* register_solver without the check that the caller is new
RegisterSolverAllowedAgain(c, chains, stake) ==
    /\ ChainsNonEmpty(host, chains)
    /\ stake >= config.min_solver_stake

\* The checks of register_solver
RegisterSolverAllowed(c, chains, stake) ==
    /\ c \notin DOMAIN solvers
    /\ ChainsNonEmpty(host, chains)
    /\ stake >= config.min_solver_stake

\* A freshly registered solver
NewSolver(c, chains, stake) ==
    [solver_id |-> c,
     supported_chains |-> chains,
     stake |-> IF host = "solana" THEN config.min_solver_stake ELSE stake,
     reputation_score |-> 100,
     total_intents_executed |-> 0,
     successful_intents |-> 0,
     failed_intents |-> 0,
     total_volume |-> 0,
     is_active |-> TRUE]

register_solver(c, chains, stake) ==
    /\ RegisterSolverAllowed(c, chains, stake)
    /\ solvers' = solvers @@ (c :> NewSolver(c, chains, stake))
    /\ config' = IF host = "solana"
                 THEN [config EXCEPT !.active_solvers = @ + 1]
                 ELSE config
    /\ escrow' = IF host = "near"
                 THEN [escrow EXCEPT ![0] = @ + stake]
                 ELSE escrow
    /\ index' = IF host = "near"
                THEN [index EXCEPT !.active_solvers = Append(@, c)]
                ELSE index
    /\ last' = Call("register_solver", c, 0)
    /\ UNCHANGED <<host, intents, now, paid, matched, pipeline, gate, calc>>

\* create_intent without the deposit check
CreateIntentAllowedZeroDeposit(c, i, inp) ==
    /\ i \notin DOMAIN intents

\* create_intent without the check that the id is new
CreateIntentAllowedExistingId(c, i, inp) ==
    /\ inp.source_amount > 0

\* The checks of create_intent
CreateIntentAllowed(c, i, inp) ==
    /\ i \notin DOMAIN intents
    /\ inp.source_amount > 0

\* A freshly created intent
NewIntent(c, i, inp) ==
    [intent_id |-> i,
     creator |-> c,
     source_chain |-> HostChain(host),
     destination_chain |-> inp.destination_chain,
     source_amount |-> inp.source_amount,
     is_shielded |-> inp.is_shielded,
     status |-> "Created",
     solver |-> NoAccount,
     created_at |-> now,
     expires_at |-> now + inp.ttl_seconds,
     executed_at |-> NoTime,
     destination_tx_hash |-> NoHash,
     privacy_proof |-> NoHash]

create_intent(c, i, inp) ==
    /\ CreateIntentAllowed(c, i, inp)
    /\ intents' = intents @@ (i :> NewIntent(c, i, inp))
    /\ escrow' = [escrow EXCEPT ![EscrowKey(i)] = @ + inp.source_amount]
    /\ config' = IF host = "solana"
                 THEN [config EXCEPT !.total_intents = @ + 1]
                 ELSE config
    /\ index' = IF host = "near"
                THEN [index EXCEPT !.intents_by_creator[c] = Append(@, i)]
                ELSE index
    /\ last' = Call("create_intent", c, i)
    /\ UNCHANGED <<host, solvers, now, paid, matched, pipeline, gate, calc>>

\* match_intent without the status check
MatchIntentAllowedAnyStatus(c, i) ==
    /\ i \in DOMAIN intents
    /\ c \in DOMAIN solvers
    /\ solvers[c].is_active
    /\ now < intents[i].expires_at
    /\ ChainsSupported(host, solvers[c].supported_chains,
                       intents[i].source_chain, intents[i].destination_chain)

\* match_intent without the expiry check
MatchIntentAllowedNoExpiry(c, i) ==
    /\ i \in DOMAIN intents
    /\ c \in DOMAIN solvers
    /\ intents[i].status = "Created"
    /\ solvers[c].is_active
    /\ ChainsSupported(host, solvers[c].supported_chains,
                       intents[i].source_chain, intents[i].destination_chain)

\* match_intent without the is_active check
MatchIntentAllowedInactive(c, i) ==
    /\ i \in DOMAIN intents
    /\ c \in DOMAIN solvers
    /\ intents[i].status = "Created"
    /\ now < intents[i].expires_at
    /\ ChainsSupported(host, solvers[c].supported_chains,
                       intents[i].source_chain, intents[i].destination_chain)

\* The checks of match_intent
MatchIntentAllowed(c, i) ==
    /\ i \in DOMAIN intents
    /\ c \in DOMAIN solvers
    /\ intents[i].status = "Created"
    /\ solvers[c].is_active
    /\ now < intents[i].expires_at
    /\ ChainsSupported(host, solvers[c].supported_chains,
                       intents[i].source_chain, intents[i].destination_chain)

\* match_intent that does not record the intent under its solver
match_intent_unindexed(c, i) ==
    /\ MatchIntentAllowed(c, i)
    /\ intents' = [intents EXCEPT ![i].status = "Matched", ![i].solver = c]
    /\ matched' = [matched EXCEPT ![i] = @ + 1]
    /\ last' = Call("match_intent", c, i)
    /\ UNCHANGED <<host, config, solvers, escrow, now, paid, pipeline, gate, calc, index>>

match_intent(c, i) ==
    /\ MatchIntentAllowed(c, i)
    /\ intents' = [intents EXCEPT ![i].status = "Matched", ![i].solver = c]
    /\ matched' = [matched EXCEPT ![i] = @ + 1]
    /\ index' = IF host = "near"
                THEN [index EXCEPT !.intents_by_solver[c] = Append(@, i)]
                ELSE index
    /\ last' = Call("match_intent", c, i)
    /\ UNCHANGED <<host, config, solvers, escrow, now, paid, pipeline, gate, calc>>

\* execute_intent without the status check
ExecuteIntentAllowedAnyStatus(c, i) ==
    /\ i \in DOMAIN intents
    /\ intents[i].solver = c

\* execute_intent without the caller check
ExecuteIntentAllowedAnyCaller(c, i) ==
    /\ i \in DOMAIN intents
    /\ intents[i].status = "Matched"

\* execute_intent with an expiry check added
ExecuteIntentAllowedBeforeExpiry(c, i) ==
    /\ i \in DOMAIN intents
    /\ intents[i].solver = c
    /\ intents[i].status = "Matched"
    /\ now < intents[i].expires_at

\* The checks of execute_intent
ExecuteIntentAllowed(c, i) ==
    /\ i \in DOMAIN intents
    /\ intents[i].solver = c
    /\ intents[i].status = "Matched"

\* execute_intent that also restarts the intent's lifetime
execute_intent_restamping(c, i, tx, proof) ==
    /\ ExecuteIntentAllowed(c, i)
    /\ intents' = [intents EXCEPT ![i].status = "Executed",
                                  ![i].executed_at = now,
                                  ![i].created_at = now,
                                  ![i].expires_at = now + 1,
                                  ![i].destination_tx_hash = tx,
                                  ![i].privacy_proof =
                                      IF host = "solana" /\ proof = NoHash THEN @ ELSE proof]
    /\ last' = Call("execute_intent", c, i)
    /\ UNCHANGED <<host, config, solvers, escrow, now, paid, matched, pipeline, gate, calc, index>>

execute_intent(c, i, tx, proof) ==
    /\ ExecuteIntentAllowed(c, i)
    /\ intents' = [intents EXCEPT ![i].status = "Executed",
                                  ![i].executed_at = now,
                                  ![i].destination_tx_hash = tx,
                                  ![i].privacy_proof =
                                      IF host = "solana" /\ proof = NoHash THEN @ ELSE proof]
    /\ last' = Call("execute_intent", c, i)
    /\ UNCHANGED <<host, config, solvers, escrow, now, paid, matched, pipeline, gate, calc, index>>

\* The checks of settle_intent, the transfers out of escrow included
SettleIntentAllowed(c, i) ==
    /\ i \in DOMAIN intents
    /\ intents[i].status = "Executed"
    /\ intents[i].solver \in DOMAIN solvers
    /\ LET split == SettlementSplit(host, intents[i].source_amount, config.protocol_fee_bps)
       IN  /\ split.ok
           /\ escrow[EscrowKey(i)] >= split.solver_reward
           /\ escrow[EscrowKey(i)] - split.solver_reward >= split.protocol_fee

settle_intent(c, i) ==
    /\ SettleIntentAllowed(c, i)
    /\ LET it == intents[i]
           split == SettlementSplit(host, it.source_amount, config.protocol_fee_bps)
       IN  /\ escrow' = [escrow EXCEPT ![EscrowKey(i)] =
                                           @ - split.solver_reward - split.protocol_fee]
           /\ paid' = [paid EXCEPT ![i].reward = @ + split.solver_reward,
                                   ![i].reward_to = it.solver,
                                   ![i].fee = @ + split.protocol_fee,
                                   ![i].fee_to = FeeDestination]
           /\ solvers' = [solvers EXCEPT ![it.solver] =
                                             SolverAfterSettle(host, @, it.source_amount)]
           /\ intents' = [intents EXCEPT ![i].status = "Settled"]
           /\ config' = [config EXCEPT !.total_volume = @ + it.source_amount]
    /\ last' = Call("settle_intent", c, i)
    /\ UNCHANGED <<host, now, matched, pipeline, gate, calc, index>>

\* fail_intent without the caller check
FailIntentAllowedAnyCaller(c, i) ==
    /\ i \in DOMAIN intents
    /\ c \in DOMAIN solvers
    /\ escrow[EscrowKey(i)] >= intents[i].source_amount

\* The checks of fail_intent, the refund out of escrow included
FailIntentAllowed(c, i) ==
    /\ i \in DOMAIN intents
    /\ intents[i].solver = c
    /\ c \in DOMAIN solvers
    /\ escrow[EscrowKey(i)] >= intents[i].source_amount

fail_intent(c, i) ==
    /\ FailIntentAllowed(c, i)
    /\ escrow' = [escrow EXCEPT ![EscrowKey(i)] = @ - intents[i].source_amount]
    /\ paid' = [paid EXCEPT ![i].refund = @ + intents[i].source_amount,
                            ![i].refund_to = intents[i].creator]
    /\ solvers' = [solvers EXCEPT ![c] = SolverAfterFail(@)]
    /\ intents' = [intents EXCEPT ![i].status = "Failed"]
    /\ last' = Call("fail_intent", c, i)
    /\ UNCHANGED <<host, config, now, matched, pipeline, gate, calc, index>>

\* set_protocol_fee without the owner check
SetProtocolFeeAllowedAnyCaller(c, fee_bps) ==
    /\ fee_bps <= 1000

\* The checks of set_protocol_fee
SetProtocolFeeAllowed(c, fee_bps) ==
    /\ c = config.owner
    /\ fee_bps <= 1000

set_protocol_fee(c, fee_bps) ==
    /\ SetProtocolFeeAllowed(c, fee_bps)
    /\ config' = [config EXCEPT !.protocol_fee_bps = fee_bps]
    /\ last' = Call("set_protocol_fee", c, 0)
    /\ UNCHANGED <<host, intents, solvers, escrow, now, paid, matched, pipeline, gate, calc, index>>

\* The checks of deactivate_solver
DeactivateSolverAllowed(c, s) ==
    /\ c = config.owner
    /\ s \in DOMAIN solvers

deactivate_solver(c, s) ==
    /\ DeactivateSolverAllowed(c, s)
    /\ solvers' = [solvers EXCEPT ![s].is_active = FALSE]
    /\ config' = IF host = "solana"
                 THEN [config EXCEPT !.active_solvers = IF @ >= 1 THEN @ - 1 ELSE 0]
                 ELSE config
    /\ last' = Call("deactivate_solver", c, 0)
    /\ UNCHANGED <<host, intents, escrow, now, paid, matched, pipeline, gate, calc, index>>

\* generate_privacy_proof queues a confidential computation: no account of
\* the bridge is read or written, the arguments name no intent.  The queued
\* entry is the range_valid flag the circuit computes from the arguments.
generate_privacy_proof(c, req) ==
    /\ host = "solana"
    /\ Len(gate.pending) < MaxPending
    /\ gate' = [gate EXCEPT !.pending =
                                Append(@, RangeValid(req.amount, req.max_amount))]
    /\ last' = Call("generate_privacy_proof", c, 0)
    /\ UNCHANGED <<host, config, intents, solvers, escrow, now, paid, matched, pipeline, calc, index>>

\* The state of the gate after a callback: a queued computation k is
\* finished; a callback for no queued computation (k = 0: a repeated or an
\* unrequested delivery) leaves the queue alone.  A Success result with
\* range_valid = true is emitted as PrivacyProofGenerated either way.
GateAfterCallback(k, output, range_valid) ==
    [pending |-> IF k \in DOMAIN gate.pending THEN RemoveAt(gate.pending, k)
                 ELSE gate.pending,
     range_proved |-> gate.range_proved \/ (output = "Success" /\ range_valid)]

\* The name under which a callback with this output is observed
CallbackOp(output) ==
    IF output = "Success" THEN "generate_privacy_proof_callback" ELSE "computation_aborted"

\* A callback that fails the held intents and refunds their creators when
\* the output is not Success
generate_privacy_proof_callback_failing(k, output, range_valid) ==
    /\ host = "solana"
    /\ k \in DOMAIN gate.pending => range_valid = gate.pending[k]
    /\ gate' = GateAfterCallback(k, output, range_valid)
    /\ intents' = [i \in DOMAIN intents |->
                      IF output # "Success" /\ intents[i].status = "Created"
                      THEN [intents[i] EXCEPT !.status = "Failed"] ELSE intents[i]]
    /\ last' = Call(CallbackOp(output), NoAccount, k)
    /\ UNCHANGED <<host, config, solvers, escrow, now, paid, matched, pipeline, calc, index>>

\* generate_privacy_proof_callback.  The handler takes the output and no
\* account of the bridge: it is delivered for the k-th queued computation,
\* with the range_valid flag that computation produced, or for none
\* (k = 0), with any result.  On Success it emits PrivacyProofGenerated
\* with the encrypted result; any other output returns AbortedComputation.
\* No account of the bridge is written on either path.
generate_privacy_proof_callback(k, output, range_valid) ==
    /\ host = "solana"
    /\ k \in DOMAIN gate.pending => range_valid = gate.pending[k]
    /\ gate' = GateAfterCallback(k, output, range_valid)
    /\ last' = Call(CallbackOp(output), NoAccount, k)
    /\ UNCHANGED <<host, config, intents, solvers, escrow, now, paid, matched, pipeline, calc, index>>

\* The ledger's clock advances between transactions
Tick ==
    /\ now < MaxTime
    /\ now' = now + 1
    /\ last' = Call("tick", NoAccount, 0)
    /\ UNCHANGED <<host, config, intents, solvers, escrow, paid, matched, pipeline, gate, calc, index>>

RegisterSolverCall ==
    \E c \in SolverAccounts, chains \in ChainInputs(host), stake \in StakeInputs :
        register_solver(c, chains, stake)

CreateIntentCall ==
    \E c \in Creators, i \in IntentIds, inp \in CreateInputs(host) : create_intent(c, i, inp)

MatchIntentCall == \E c \in Accounts, i \in IntentIds : match_intent(c, i)

ExecuteIntentCall ==
    \E c \in Accounts, i \in IntentIds, tx \in TxHashes, proof \in ProofInputs :
        execute_intent(c, i, tx, proof)

SettleIntentCall == \E c \in Accounts, i \in IntentIds : settle_intent(c, i)

FailIntentCall == \E c \in Accounts, i \in IntentIds : fail_intent(c, i)

SetProtocolFeeCall == \E c \in Accounts, fee_bps \in FeeInputs : set_protocol_fee(c, fee_bps)

DeactivateSolverCall == \E c \in Accounts, s \in Accounts : deactivate_solver(c, s)

GeneratePrivacyProofCall ==
    \E c \in Creators, req \in ProofRequests : generate_privacy_proof(c, req)

GeneratePrivacyProofCallback ==
    \E k \in 0..MaxPending, output \in GateOutputs, range_valid \in BOOLEAN :
        generate_privacy_proof_callback(k, output, range_valid)

Next ==
    \/ RegisterSolverCall
    \/ CreateIntentCall
    \/ MatchIntentCall
    \/ ExecuteIntentCall
    \/ SettleIntentCall
    \/ FailIntentCall
    \/ SetProtocolFeeCall
    \/ DeactivateSolverCall
    \/ GeneratePrivacyProofCall
    \/ GeneratePrivacyProofCallback
    \/ Tick

Spec == Init /\ [][Next]_vars

-----------------------------------------------------------------------------
(* SpecRep: one solver working through a long series of intents.            *)
(*                                                                         *)
(* Intent ids are u64 / strings, so a solver can be bound to any number of  *)
(* intents one after the other.  Keeping hundreds of intent records in the  *)
(* state is not needed to follow the solver's record: this specification    *)
(* keeps the solver registry and the config as they are, and of the intents *)
(* only the status of the one the solver is working on (pipeline.status)    *)
(* and how many were created (pipeline.count).  Each step applies the       *)
(* solver/config update of the corresponding handler.                       *)

RepSolver == "s1"
RepAmount == 10000

InitRep ==
    /\ Init
    /\ config.protocol_fee_bps = 250

RepRegister ==
    /\ \E chains \in ChainInputs(host) :
          /\ RegisterSolverAllowed(RepSolver, chains, MinSolverStake)
          /\ solvers' = solvers @@ (RepSolver :> NewSolver(RepSolver, chains, MinSolverStake))
    /\ config' = IF host = "solana"
                 THEN [config EXCEPT !.active_solvers = @ + 1]
                 ELSE config
    /\ index' = IF host = "near"
                THEN [index EXCEPT !.active_solvers = Append(@, RepSolver)]
                ELSE index
    /\ last' = Call("register_solver", RepSolver, 0)
    /\ UNCHANGED <<host, intents, escrow, now, paid, matched, pipeline, gate, calc>>

RepCreate ==
    /\ pipeline.status = "None"
    /\ pipeline.count < MaxRepIntents
    /\ pipeline' = [count |-> pipeline.count + 1, status |-> "Created"]
    /\ config' = IF host = "solana"
                 THEN [config EXCEPT !.total_intents = @ + 1]
                 ELSE config
    /\ last' = Call("create_intent", "alice", pipeline.count + 1)
    /\ UNCHANGED <<host, intents, solvers, escrow, now, paid, matched, gate, calc, index>>

RepMatch ==
    /\ pipeline.status = "Created"
    /\ RepSolver \in DOMAIN solvers
    /\ solvers[RepSolver].is_active
    /\ pipeline' = [pipeline EXCEPT !.status = "Matched"]
    /\ last' = Call("match_intent", RepSolver, pipeline.count)
    /\ UNCHANGED <<host, config, intents, solvers, escrow, now, paid, matched, gate, calc, index>>

RepExecute ==
    /\ pipeline.status = "Matched"
    /\ pipeline' = [pipeline EXCEPT !.status = "Executed"]
    /\ last' = Call("execute_intent", RepSolver, pipeline.count)
    /\ UNCHANGED <<host, config, intents, solvers, escrow, now, paid, matched, gate, calc, index>>

RepSettle ==
    /\ pipeline.status = "Executed"
    /\ SettlementSplit(host, RepAmount, config.protocol_fee_bps).ok
    /\ solvers' = [solvers EXCEPT ![RepSolver] = SolverAfterSettle(host, @, RepAmount)]
    /\ config' = [config EXCEPT !.total_volume = @ + RepAmount]
    /\ pipeline' = [pipeline EXCEPT !.status = "None"]
    /\ last' = Call("settle_intent", "alice", pipeline.count)
    /\ UNCHANGED <<host, intents, escrow, now, paid, matched, gate, calc, index>>

RepFail ==
    /\ pipeline.status \in {"Matched", "Executed"}
    /\ solvers[RepSolver].failed_intents < MaxRepFails
    /\ solvers' = [solvers EXCEPT ![RepSolver] = SolverAfterFail(@)]
    /\ pipeline' = [pipeline EXCEPT !.status = "None"]
    /\ last' = Call("fail_intent", RepSolver, pipeline.count)
    /\ UNCHANGED <<host, config, intents, escrow, now, paid, matched, gate, calc, index>>

NextRep ==
    \/ RepRegister
    \/ RepCreate
    \/ RepMatch
    \/ RepExecute
    \/ RepSettle
    \/ RepFail

SpecRep == InitRep /\ [][NextRep]_vars

-----------------------------------------------------------------------------
(* SpecCalc: the confidential circuits of encrypted-ixs as functions.       *)
(*                                                                         *)
(* Each step evaluates one circuit on arguments drawn from its input set    *)
(* and leaves arguments and result in calc.  The circuits use the plain     *)
(* operators `*`, `+`, `-`, `/` and `as` casts: where the exact value of an *)
(* operation does not fit its type, the evaluation either continues with    *)
(* the value reduced modulo the width or is aborted, depending on how the   *)
(* circuit is built, and both outcomes are steps.                           *)

\* Result of an evaluation that did not complete
Aborted == <<>>

\* The outcomes of an evaluation: its value, computed with wrapping
\* arithmetic, and Aborted when some operation left its type's range
Outcomes(value, out_of_range) == IF out_of_range THEN {value, Aborted} ELSE {value}

\* verify_intent_amounts arguments: <<source_amount, destination_amount,
\* expected_rate_bps, min_source_amount, protocol_fee_bps>>
VerifyInputs ==
    {499, 1000, 16384} \X {0, 95, 101, 2000} \X {0, 1000, 10000} \X {0, 500} \X {30, 1000}

\* The circuit verify_intent_amounts (amounts are u128, the bps are u64
\* widened to u128 before the multiplication); the result is
\* <<rate_valid, amount_sufficient, fee>>
VerifyIntentAmounts(a) ==
    LET source_amount == a[1]
        destination_amount == a[2]
        expected_rate_bps == a[3]
        min_source_amount == a[4]
        protocol_fee_bps == a[5]
        rate_product == source_amount * expected_rate_bps
        fee_product == source_amount * protocol_fee_bps
        expected_dest == (rate_product % U128Modulus) \div 10000
    IN  Outcomes(<<destination_amount <= expected_dest,
                   source_amount >= min_source_amount,
                   (fee_product % U128Modulus) \div 10000>>,
                 rate_product >= U128Modulus \/ fee_product >= U128Modulus)

\* Number of values of u32, at the modelled width
U32Modulus == Pow2(U32Bits)

\* calculate_reputation arguments: <<total_executed, successful,
\* total_volume, volume_threshold>>, the u64 counters, the u128 volume and
\* the volume threshold
ReputationInputs ==
    {0, 1, 10, 100, U32Modulus, U32Modulus + 1} \X {0, 1, 5, 10, 100}
        \X {0, 500, 1000, 200000} \X {0, 1000, 300000}

\* The tier of a score
Tier(score) ==
    IF score >= 900 THEN 5
    ELSE IF score >= 700 THEN 4
    ELSE IF score >= 500 THEN 3
    ELSE IF score >= 300 THEN 2
    ELSE 1

\* The circuit calculate_reputation.  `as u32` keeps the low bits of the
\* u64 counters; the multiplication by 1000 and the sum are u32 operations,
\* the volume product a u128 operation.  A division by a total_executed
\* whose low bits are all zero has no value.  The result is
\* <<score, tier, high_value_eligible>>.
CalculateReputation(m) ==
    LET total_executed == m[1]
        successful == m[2]
        total_volume == m[3]
        volume_threshold == m[4]
        successful32 == successful % U32Modulus
        executed32 == total_executed % U32Modulus
        rate_product == successful32 * 1000
        by_zero == total_executed > 0 /\ executed32 = 0
        success_rate == IF total_executed > 0
                        THEN (rate_product % U32Modulus) \div (IF by_zero THEN 1 ELSE executed32)
                        ELSE 500
        full_bonus == total_volume >= volume_threshold
        volume_product == total_volume * 100
        volume_bonus == IF full_bonus THEN 100
                        ELSE ((volume_product % U128Modulus) \div volume_threshold) % U32Modulus
        sum == success_rate + volume_bonus
        score == IF sum % U32Modulus > 1000 THEN 1000 ELSE sum % U32Modulus
    IN  IF by_zero THEN {Aborted}
        ELSE Outcomes(<<score, Tier(score), Tier(score) >= 4 /\ full_bonus>>,
                      \/ total_executed > 0 /\ rate_product >= U32Modulus
                      \/ ~full_bonus /\ volume_product >= U128Modulus
                      \/ sum >= U32Modulus)

\* Byte arrays at the modelled sizes: a [u8; 32] is HashLen bytes of
\* ByteBits bits, the u128 amount is AmountLen bytes
ByteBits == 2
HashLen == 2
AmountLen == 1
ByteModulus == Pow2(ByteBits)

\* Bitwise exclusive or of two naturals
RECURSIVE Xor(_, _)
Xor(x, y) ==
    IF x = 0 THEN y
    ELSE IF y = 0 THEN x
    ELSE (((x % 2) + (y % 2)) % 2) + 2 * Xor(x \div 2, y \div 2)

\* amount.to_le_bytes()[k - 1]
AmountByte(amount, k) == (amount \div Pow2(ByteBits * (k - 1))) % ByteModulus

\* generate_privacy_proof arguments: <<amount, blinding, recipient_hash,
\* max_amount>>
ShieldedTransfers ==
    {0, 1, 3} \X {<<0, 0>>, <<1, 2>>, <<3, 3>>} \X {<<0, 0>>, <<1, 2>>} \X {2}

\* The circuit generate_privacy_proof: every byte of the commitment is
\* blinding ^ recipient_hash, the first AmountLen bytes also ^ the amount's
\* bytes; the result is <<commitment, range_valid>>
GeneratePrivacyProof(t) ==
    LET amount == t[1]
        blinding == t[2]
        recipient_hash == t[3]
        max_amount == t[4]
        commitment == [k \in 1..HashLen |->
                          IF k <= AmountLen
                          THEN Xor(Xor(blinding[k], recipient_hash[k]), AmountByte(amount, k))
                          ELSE Xor(blinding[k], recipient_hash[k])]
    IN  <<commitment, RangeValid(amount, max_amount)>>

\* initialize_bridge with no limit on the fee
InitializeBridgeAllowedAnyFee(protocol_fee_bps) == protocol_fee_bps >= 0

\* The check of initialize_bridge (set_protocol_fee has the same one)
InitializeBridgeAllowed(protocol_fee_bps) == protocol_fee_bps <= 1000

\* The fees a Solana config can hold: the u16 values initialize_bridge
\* accepts, out of every value up to 1001 and two larger ones
SolanaFees == {bps \in 0..1001 \cup {10001, 20000} : InitializeBridgeAllowed(bps)}

\* u64 source amounts, the largest included
SettleAmounts == {1, 9, 9999, 10001, U64Modulus - 1}

InitCalc ==
    /\ Init
    /\ host = "solana"

\* The evaluations keep no state between calls: each behaviour of SpecCalc
\* is one evaluation, on any of the inputs
NotEvaluated == calc.fn = "none"

VerifyIntentAmountsEval ==
    /\ NotEvaluated
    /\ \E a \in VerifyInputs : \E out \in VerifyIntentAmounts(a) :
        /\ calc' = [fn |-> "verify_intent_amounts", args |-> a, out |-> out]
        /\ UNCHANGED <<host, config, intents, solvers, escrow, now, paid, matched, last,
                       pipeline, gate, index>>

CalculateReputationEval ==
    /\ NotEvaluated
    /\ \E m \in ReputationInputs : \E out \in CalculateReputation(m) :
        /\ calc' = [fn |-> "calculate_reputation", args |-> m, out |-> out]
        /\ UNCHANGED <<host, config, intents, solvers, escrow, now, paid, matched, last,
                       pipeline, gate, index>>

\* Two evaluations of generate_privacy_proof, side by side
GeneratePrivacyProofEval ==
    /\ NotEvaluated
    /\ \E t1 \in ShieldedTransfers, t2 \in ShieldedTransfers :
        /\ calc' = [fn |-> "generate_privacy_proof", args |-> <<t1, t2>>,
                    out |-> <<GeneratePrivacyProof(t1), GeneratePrivacyProof(t2)>>]
        /\ UNCHANGED <<host, config, intents, solvers, escrow, now, paid, matched, last,
                       pipeline, gate, index>>

\* The fee computation of Solana's settle_intent; the result is
\* <<no Overflow error, protocol_fee, solver_reward>>
SettleFeeEval ==
    /\ NotEvaluated
    /\ \E amount \in SettleAmounts, bps \in SolanaFees :
        LET split == SettlementSplit("solana", amount, bps)
        IN  /\ calc' = [fn |-> "settle_intent", args |-> <<amount, bps>>,
                        out |-> <<split.ok, split.protocol_fee, split.solver_reward>>]
            /\ UNCHANGED <<host, config, intents, solvers, escrow, now, paid, matched, last,
                           pipeline, gate, index>>

NextCalc ==
    \/ VerifyIntentAmountsEval
    \/ CalculateReputationEval
    \/ GeneratePrivacyProofEval
    \/ SettleFeeEval

SpecCalc == InitCalc /\ [][NextCalc]_vars

-----------------------------------------------------------------------------
(* SpecPool: two intents served by one solver.                              *)
(*                                                                         *)
(* The same handlers as in Spec, called by one creator and one solver with  *)
(* one create_intent argument set, on MaxPoolIntents intent ids: on NEAR    *)
(* the deposits of all intents and the solver's stake share the contract's  *)
(* balance, so what is paid on one intent bears on the others.              *)

PoolSolver == "s1"
PoolIntentIds == 1..MaxPoolIntents
PoolCreateInput ==
    [destination_chain |-> "Zcash", source_amount |-> 10001, is_shielded |-> FALSE, ttl_seconds |-> 1]

InitPool ==
    /\ host \in Hosts
    /\ config = [owner |-> "owner",
                 min_solver_stake |-> MinSolverStake,
                 protocol_fee_bps |-> 250,
                 total_volume |-> 0,
                 total_intents |-> 0,
                 active_solvers |-> 0,
                 fee_vault |-> "owner"]
    /\ intents = <<>>
    /\ solvers = [a \in {} |-> 0]
    /\ escrow = [k \in 0..MaxPoolIntents |-> 0]
    /\ now = 0
    /\ paid = [i \in PoolIntentIds |-> NoPayout]
    /\ matched = [i \in PoolIntentIds |-> 0]
    /\ last = Call("init", NoAccount, 0)
    /\ pipeline = [count |-> 0, status |-> "None"]
    /\ gate = [pending |-> <<>>, range_proved |-> FALSE]
    /\ calc = [fn |-> "none", args |-> <<>>, out |-> <<>>]
    /\ index = NoIndex

PoolRegister == \E chains \in ChainInputs(host) : register_solver(PoolSolver, chains, MinSolverStake)

PoolCreate == \E c \in Creators, i \in PoolIntentIds : create_intent(c, i, PoolCreateInput)

PoolMatch == \E i \in PoolIntentIds : match_intent(PoolSolver, i)

PoolExecute == \E i \in PoolIntentIds, tx \in TxHashes : execute_intent(PoolSolver, i, tx, NoHash)

PoolSettle == \E c \in Creators, i \in PoolIntentIds : settle_intent(c, i)

PoolFail == \E i \in PoolIntentIds : fail_intent(PoolSolver, i)

NextPool ==
    \/ PoolRegister
    \/ PoolCreate
    \/ PoolMatch
    \/ PoolExecute
    \/ PoolSettle
    \/ PoolFail

SpecPool == InitPool /\ [][NextPool]_vars

-----------------------------------------------------------------------------
(* SpecAbort: SpecPool with the rejected calls made visible.                *)
(*                                                                         *)
(* A call that fails a require!/assert!/account constraint returns an error *)
(* (Solana) or panics (NEAR); the runtime then discards every write of the  *)
(* transaction/receipt and returns what was attached to it.  In Spec such a *)
(* call is no step; here it is a step that records the call in `last`.      *)

RejectedOps ==
    {"register_solver_rejected", "create_intent_rejected", "match_intent_rejected",
     "execute_intent_rejected", "settle_intent_rejected", "fail_intent_rejected",
     "set_protocol_fee_rejected", "deactivate_solver_rejected"}

\* A rejected call whose attached amount is not returned
RejectedKeepsDeposit(op, c, i) ==
    /\ last' = Call(op, c, i)
    /\ escrow' = [escrow EXCEPT ![EscrowKey(i)] = @ + 1]
    /\ UNCHANGED <<host, config, intents, solvers, now, paid, matched, pipeline, gate, calc, index>>

\* The outcome of a call that fails a check
Rejected(op, c, i) ==
    /\ last' = Call(op, c, i)
    /\ UNCHANGED <<host, config, intents, solvers, escrow, now, paid, matched, pipeline,
                   gate, calc, index>>

RejectedCall ==
    \/ \E c \in SolverAccounts, chains \in ChainInputs(host), stake \in StakeInputs :
          ~RegisterSolverAllowed(c, chains, stake) /\ Rejected("register_solver_rejected", c, 0)
    \/ \E c \in Creators, i \in PoolIntentIds, inp \in CreateInputs(host) :
          ~CreateIntentAllowed(c, i, inp) /\ Rejected("create_intent_rejected", c, i)
    \/ \E c \in Accounts, i \in PoolIntentIds :
          ~MatchIntentAllowed(c, i) /\ Rejected("match_intent_rejected", c, i)
    \/ \E c \in Accounts, i \in PoolIntentIds :
          ~ExecuteIntentAllowed(c, i) /\ Rejected("execute_intent_rejected", c, i)
    \/ \E c \in Accounts, i \in PoolIntentIds :
          ~SettleIntentAllowed(c, i) /\ Rejected("settle_intent_rejected", c, i)
    \/ \E c \in Accounts, i \in PoolIntentIds :
          ~FailIntentAllowed(c, i) /\ Rejected("fail_intent_rejected", c, i)
    \/ \E c \in Accounts, fee_bps \in FeeInputs :
          ~SetProtocolFeeAllowed(c, fee_bps) /\ Rejected("set_protocol_fee_rejected", c, 0)
    \/ \E c \in Accounts, s \in Accounts :
          ~DeactivateSolverAllowed(c, s) /\ Rejected("deactivate_solver_rejected", c, 0)

NextAbort ==
    \/ NextPool
    \/ Tick
    \/ RejectedCall

SpecAbort == InitPool /\ [][NextAbort]_vars

-----------------------------------------------------------------------------
(* Properties *)

\* The capability set caps (in the host's representation) contains chain
HasCapability(h, caps, chain) ==
    IF h = "solana" THEN HasBit(caps, ChainBit(chain)) ELSE VecContains(caps, chain)

\* The escrow of intent i has not been released
Held(i) == intents[i].status \in {"Created", "Matched", "Executed"}

\* The step is an accepted call of op on intent i
Accepted(op, i) == last'.op = op /\ last'.id = i

\* C1: the solver field of an intent, once Some(x), is never changed by any
\* operation, and at most one match_intent on an intent is ever accepted
\* (one IntentMatched event per intent), whatever the order of the calls.
C1_SolverBoundOnce ==
    /\ [](\A i \in IntentIds : matched[i] <= 1)
    /\ [][\A i \in DOMAIN intents :
            /\ intents[i].solver # NoAccount => intents'[i].solver = intents[i].solver
            /\ intents'[i].solver # intents[i].solver => Accepted("match_intent", i)]_vars

\* An intent bound to s1 while s2 is registered, active, capable and in time:
\* s2's competing match_intent is the call that must lose.
C1_Witness ==
    \E i \in DOMAIN intents :
        /\ intents[i].status = "Matched"
        /\ intents[i].solver = "s1"
        /\ matched[i] = 1
        /\ "s2" \in DOMAIN solvers
        /\ solvers["s2"].is_active
        /\ now < intents[i].expires_at
        /\ ChainsSupported(host, solvers["s2"].supported_chains,
                           intents[i].source_chain, intents[i].destination_chain)

StatusEdges ==
    {<<"Created", "Matched">>, <<"Matched", "Executed">>, <<"Executed", "Settled">>,
     <<"Created", "Failed">>, <<"Matched", "Failed">>, <<"Executed", "Failed">>}

\* C2: every change of an intent's status is one of the edges Created->Matched,
\* Matched->Executed, Executed->Settled, {Created, Matched, Executed}->Failed;
\* Settled and Failed have no outgoing edge.
C2_StatusEdges ==
    [][\A i \in DOMAIN intents :
          intents'[i].status # intents[i].status
              => <<intents[i].status, intents'[i].status>> \in StatusEdges]_vars

\* C3: the total paid out on account of an intent (solver reward + protocol
\* fee + refund) never exceeds the source_amount deposited for it.
C3_NoDoubleSpend ==
    \A i \in DOMAIN intents :
        paid[i].reward + paid[i].fee + paid[i].refund <= intents[i].source_amount

\* C4: every accepted settle_intent pays protocol_fee =
\* floor(source_amount * protocol_fee_bps / 10000) and solver_reward with
\* solver_reward + protocol_fee = source_amount.
C4_SettlementSplit ==
    [][\A i \in DOMAIN intents :
          Accepted("settle_intent", i) =>
              LET fee == paid'[i].fee - paid[i].fee
                  reward == paid'[i].reward - paid[i].reward
              IN  /\ fee = (intents[i].source_amount * config.protocol_fee_bps) \div 10000
                  /\ reward + fee = intents[i].source_amount]_vars

\* Some call can still move intent i towards the release of its escrow:
\* a settle_intent, fail_intent or execute_intent that passes its checks for
\* some caller, or, while the intent is Created, a match_intent that the
\* expiry check still lets through (for a solver that is or gets registered).
Releasable(i) ==
    \/ \E c \in Accounts : SettleIntentAllowed(c, i)
    \/ \E c \in Accounts : FailIntentAllowed(c, i)
    \/ \E c \in Accounts : ExecuteIntentAllowed(c, i)
    \/ intents[i].status = "Created" /\ now < intents[i].expires_at

\* C5: no stuck funds: every intent whose escrow is still held has a
\* continuation of calls that releases it, an expired Created intent included.
C5_NoStuckFunds == \A i \in DOMAIN intents : Held(i) => Releasable(i)

\* C6: fail_intent on a Matched intent is a call of the bound solver, refunds
\* the creator exactly source_amount (nothing else has been paid) and sets
\* the status to Failed; a Failed intent stays Failed in every later state,
\* so it is never Executed and never Settled.
C6_FailAfterMatched ==
    [][\A i \in DOMAIN intents :
          /\ (Accepted("fail_intent", i) /\ intents[i].status = "Matched") =>
                 /\ last'.caller = intents[i].solver
                 /\ paid[i] = NoPayout
                 /\ paid'[i] = [NoPayout EXCEPT !.refund = intents[i].source_amount,
                                                !.refund_to = intents[i].creator]
                 /\ intents'[i].status = "Failed"
          /\ intents[i].status = "Failed" => intents'[i].status = "Failed"]_vars

\* A Matched intent has just been failed by its solver and refunded.
C6_Witness ==
    \E i \in DOMAIN intents :
        /\ last = Call("fail_intent", intents[i].solver, i)
        /\ intents[i].status = "Failed"
        /\ intents[i].executed_at = NoTime
        /\ paid[i].refund = intents[i].source_amount
        /\ paid[i].refund_to = intents[i].creator

\* C7: while now >= expires_at, no match_intent on a Created intent is
\* accepted: the intent stays Created with solver None.
C7_ExpiredNotMatched ==
    [][\A i \in DOMAIN intents :
          (intents[i].status = "Created" /\ now >= intents[i].expires_at) =>
              /\ ~Accepted("match_intent", i)
              /\ intents'[i].status = "Created"
              /\ intents'[i].solver = NoAccount]_vars

\* An expired Created intent and a registered, active solver that supports
\* the chains of the intent: only the expiry check stands in the way.
C7_Witness ==
    \E i \in DOMAIN intents, c \in DOMAIN solvers :
        /\ intents[i].status = "Created"
        /\ now >= intents[i].expires_at
        /\ solvers[c].is_active
        /\ HasCapability(host, solvers[c].supported_chains, intents[i].source_chain)
        /\ HasCapability(host, solvers[c].supported_chains, intents[i].destination_chain)

\* C8: an intent is bound only to a solver whose capability set contains
\* both the intent's source_chain and its destination_chain.
C8_MatchRequiresBothChains ==
    \A i \in DOMAIN intents :
        intents[i].solver # NoAccount =>
            /\ HasCapability(host, solvers[intents[i].solver].supported_chains,
                             intents[i].source_chain)
            /\ HasCapability(host, solvers[intents[i].solver].supported_chains,
                             intents[i].destination_chain)

\* C9: every solver's reputation_score is between 0 and 1000 inclusive.
C9_ReputationInRange ==
    \A c \in DOMAIN solvers :
        solvers[c].reputation_score >= 0 /\ solvers[c].reputation_score <= 1000

\* C10: an accepted execute_intent is a call of the bound solver on a Matched
\* intent; no other step changes executed_at, destination_tx_hash or
\* privacy_proof, or makes the status Executed.
C10_ExecuteOnlyByBoundSolver ==
    [][\A i \in DOMAIN intents :
          /\ Accepted("execute_intent", i) =>
                 /\ last'.caller = intents[i].solver
                 /\ intents[i].status = "Matched"
          /\ ~Accepted("execute_intent", i) =>
                 /\ intents'[i].executed_at = intents[i].executed_at
                 /\ intents'[i].destination_tx_hash = intents[i].destination_tx_hash
                 /\ intents'[i].privacy_proof = intents[i].privacy_proof
                 /\ intents'[i].status = "Executed" => intents[i].status = "Executed"]_vars

\* An intent just executed by its solver while another solver is registered.
C10_Witness ==
    \E i \in DOMAIN intents :
        /\ intents[i].status = "Executed"
        /\ last = Call("execute_intent", intents[i].solver, i)
        /\ intents[i].executed_at = now
        /\ intents[i].destination_tx_hash \in TxHashes
        /\ \E c \in DOMAIN solvers : c # intents[i].solver

\* C11: settle_intent is accepted, for every caller, exactly when the intent
\* is Executed; an accepted settle_intent pays the reward to the solver bound
\* to the intent and the fee to the configured fee destination and makes the
\* status Settled (so that a second settle_intent is rejected).
C11_SettleIffExecuted ==
    /\ [](\A i \in DOMAIN intents : \A c \in Accounts :
             SettleIntentAllowed(c, i) <=> intents[i].status = "Executed")
    /\ [][\A i \in DOMAIN intents :
            Accepted("settle_intent", i) =>
                /\ intents[i].status = "Executed"
                /\ paid'[i].reward_to = intents[i].solver
                /\ paid'[i].fee_to = FeeDestination
                /\ intents'[i].status = "Settled"]_vars

\* C12: an intent created with is_shielded = true becomes Executed only
\* after a range-check result with range_valid = true has been observed;
\* execute_intent on a shielded intent without such a result is rejected.
C12_ShieldedNeedsRangeCheck ==
    [][\A i \in DOMAIN intents :
          (Accepted("execute_intent", i) /\ intents[i].is_shielded) => gate.range_proved]_vars

C14_CreateEscrowsDeposit ==
    [][\A i \in IntentIds :
          Accepted("create_intent", i) =>
              /\ intents'[i].source_amount > 0
              /\ escrow'[EscrowKey(i)] = escrow[EscrowKey(i)] + intents'[i].source_amount
              /\ intents'[i].status = "Created"
              /\ intents'[i].solver = NoAccount]_vars

\* An intent was just created and its deposit is in escrow, next to a
\* registered solver (whose stake shares the balance on NEAR).
C14_Witness ==
    \E i \in DOMAIN intents :
        /\ last = Call("create_intent", intents[i].creator, i)
        /\ intents[i].status = "Created"
        /\ escrow[EscrowKey(i)] >= intents[i].source_amount
        /\ intents[i].source_amount > 0
        /\ DOMAIN solvers # {}

\* C15: create_intent with an intent id that already exists is rejected
\* whatever the status of the existing intent, and its creator and
\* source_amount never change (status and solver change only by the calls of
\* C1 and C2, never by create_intent; no deposit moves without an accepted
\* create_intent).
C15_ExistingIdRejected ==
    [][\A i \in DOMAIN intents :
          /\ ~Accepted("create_intent", i)
          /\ last'.op = "create_intent" => intents'[i] = intents[i]
          /\ intents'[i].creator = intents[i].creator
          /\ intents'[i].source_amount = intents[i].source_amount]_vars

\* A settled intent: its id is free of obligations but still taken.
C15_Witness ==
    \E i \in DOMAIN intents :
        /\ intents[i].status = "Settled"
        /\ paid[i].reward + paid[i].fee = intents[i].source_amount

C17_FeeAtMostTenPercent ==
    /\ [](config.protocol_fee_bps <= 1000)
    /\ [][config'.protocol_fee_bps # config.protocol_fee_bps
             => config'.protocol_fee_bps <= 1000]_vars

\* C18: set_protocol_fee and deactivate_solver are accepted only from the
\* configured owner; protocol_fee_bps changes only by set_protocol_fee,
\* is_active only by deactivate_solver, and the active-solver counter only
\* by deactivate_solver or a registration.
C18_AdminOnly ==
    [][/\ last'.op \in {"set_protocol_fee", "deactivate_solver"} => last'.caller = config.owner
       /\ config'.protocol_fee_bps # config.protocol_fee_bps => last'.op = "set_protocol_fee"
       /\ \A c \in DOMAIN solvers :
             solvers'[c].is_active # solvers[c].is_active => last'.op = "deactivate_solver"
       /\ config'.active_solvers # config.active_solvers
             => last'.op \in {"deactivate_solver", "register_solver"}]_vars

\* The owner has changed the fee and deactivated a solver, and other
\* accounts (a creator, two solvers) are there to try the same.
C18_Witness ==
    /\ last.op = "deactivate_solver"
    /\ last.caller = config.owner
    /\ config.protocol_fee_bps = 1000
    /\ \E c \in DOMAIN solvers : ~solvers[c].is_active
    /\ \E c \in DOMAIN solvers : solvers[c].is_active /\ c # config.owner

\* C19: for every solver, successful_intents + failed_intents is at most
\* total_intents_executed.
C19_CountersConsistent ==
    \A c \in DOMAIN solvers :
        solvers[c].successful_intents + solvers[c].failed_intents
            <= solvers[c].total_intents_executed

\* C20: Failed is reachable directly from Created: for every Created intent
\* there is a caller whose fail_intent is accepted.
C20_FailFromCreated ==
    \A i \in DOMAIN intents :
        intents[i].status = "Created" => \E c \in Accounts : FailIntentAllowed(c, i)

\* C21: for all inputs verify_intent_amounts returns rate_valid =
\* (destination_amount <= floor(source_amount * expected_rate_bps / 10000)),
\* amount_sufficient = (source_amount >= min_source_amount) and fee =
\* floor(source_amount * protocol_fee_bps / 10000) (so: true, true, 3 for
\* source 1000, destination 95, rate 10000, minimum 500, fee 30 bps).
C21_VerifyIntentAmounts ==
    calc.fn = "verify_intent_amounts" =>
        LET source_amount == calc.args[1]
            destination_amount == calc.args[2]
            expected_rate_bps == calc.args[3]
            min_source_amount == calc.args[4]
            protocol_fee_bps == calc.args[5]
        IN  calc.out = <<destination_amount <= (source_amount * expected_rate_bps) \div 10000,
                         source_amount >= min_source_amount,
                         (source_amount * protocol_fee_bps) \div 10000>>

\* C22: for all counter values calculate_reputation returns score =
\* min(1000, success_rate + volume_bonus) with success_rate =
\* floor(successful * 1000 / total_executed) (500 when total_executed = 0)
\* and volume_bonus = min(100, floor(total_volume * 100 / volume_threshold))
\* (100 for a zero threshold), tier 5/4/3/2/1 for score >= 900/700/500/300/
\* otherwise, high_value_eligible = (tier >= 4 and total_volume >=
\* volume_threshold).
C22_CalculateReputation ==
    calc.fn = "calculate_reputation" =>
        LET total_executed == calc.args[1]
            successful == calc.args[2]
            total_volume == calc.args[3]
            volume_threshold == calc.args[4]
            success_rate == IF total_executed = 0 THEN 500
                            ELSE (successful * 1000) \div total_executed
            ratio == IF volume_threshold = 0 THEN 100
                     ELSE (total_volume * 100) \div volume_threshold
            volume_bonus == IF ratio > 100 THEN 100 ELSE ratio
            score == IF success_rate + volume_bonus > 1000 THEN 1000
                     ELSE success_rate + volume_bonus
            tier == IF score >= 900 THEN 5 ELSE IF score >= 700 THEN 4
                    ELSE IF score >= 500 THEN 3 ELSE IF score >= 300 THEN 2 ELSE 1
        IN  calc.out = <<score, tier, tier >= 4 /\ total_volume >= volume_threshold>>

\* C23: an overflow of source_amount * protocol_fee_bps in the settlement
\* fee computation is detected and the call rejected: no settle_intent is
\* accepted when the product does not fit the type it is computed in.
C23_OverflowRejected ==
    [][\A i \in DOMAIN intents :
          Accepted("settle_intent", i) =>
              /\ intents[i].source_amount * config.protocol_fee_bps < U128Modulus
              /\ ~SettlementSplit(host, intents[i].source_amount,
                                  config.protocol_fee_bps).wrapped]_vars

\* A callback step that reports an aborted computation, or that delivers a
\* result when no result with range_valid = true has ever been delivered
NegativeResult ==
    \/ last'.op = "computation_aborted"
    \/ /\ last'.op = "generate_privacy_proof_callback"
       /\ Len(gate'.pending) < Len(gate.pending)
       /\ ~gate'.range_proved

\* C24: when a gate callback reports an aborted computation or an invalid
\* result while an intent is held in escrow, an intent is marked Failed and
\* its creator is refunded source_amount.
C24_NegativeResultFailsIntent ==
    [][(NegativeResult /\ \E i \in DOMAIN intents : Held(i)) =>
          \E i \in DOMAIN intents :
              /\ Held(i)
              /\ intents'[i].status = "Failed"
              /\ paid'[i].refund = paid[i].refund + intents[i].source_amount]_vars

\* C25: fail_intent on an intent in a terminal status is rejected: no
\* further refund is paid and the solver's failed_intents and
\* reputation_score do not change again.
C25_FailOnTerminalRejected ==
    [][\A i \in DOMAIN intents :
          intents[i].status \in {"Settled", "Failed"} =>
              /\ ~Accepted("fail_intent", i)
              /\ paid'[i].refund = paid[i].refund
              /\ \A c \in DOMAIN solvers :
                     intents[i].solver = c =>
                         /\ solvers'[c].failed_intents = solvers[c].failed_intents
                         /\ solvers'[c].reputation_score = solvers[c].reputation_score]_vars

\* C26: between the submission of a gate request and the delivery of its
\* callback, no match_intent and no execute_intent is accepted.
C26_WaitingRejectsMatchExecute ==
    [][Len(gate.pending) > 0 =>
          \A i \in DOMAIN intents :
              ~Accepted("match_intent", i) /\ ~Accepted("execute_intent", i)]_vars

\* A step that delivers a gate callback
CallbackDelivered == last'.op \in {"generate_privacy_proof_callback", "computation_aborted"}

\* C27: a gate callback, whether it matches a pending request, repeats an
\* earlier delivery or matches no request at all, changes no intent, no
\* solver and no config record (so delivering a result twice leaves these
\* records as delivering it once does) and moves no funds.
C27_CallbacksChangeNoRecord ==
    [][CallbackDelivered =>
          /\ intents' = intents
          /\ solvers' = solvers
          /\ config' = config
          /\ escrow' = escrow
          /\ paid' = paid]_vars

\* A callback has been delivered for no pending request, with a solver
\* registered and a deposit held
C27_Witness ==
    /\ last.op \in {"generate_privacy_proof_callback", "computation_aborted"}
    /\ last.id = 0
    /\ gate.pending = <<>>
    /\ DOMAIN solvers # {}
    /\ \E i \in DOMAIN intents : Held(i)

\* C28: a solver record is never removed; once is_active is false it stays
\* false and no match_intent by that solver is accepted; deactivate_solver
\* changes nothing of a solver record but is_active.
C28_DeactivatedStaysInactive ==
    [][\A s \in DOMAIN solvers :
          /\ s \in DOMAIN solvers'
          /\ ~solvers[s].is_active =>
                 /\ ~solvers'[s].is_active
                 /\ \A i \in DOMAIN intents :
                        ~(Accepted("match_intent", i) /\ last'.caller = s)
          /\ last'.op = "deactivate_solver" =>
                 solvers'[s] \in {solvers[s], [solvers[s] EXCEPT !.is_active = FALSE]}]_vars

\* A solver has been deactivated while an unexpired Created intent on
\* chains it supports is waiting for a match
C28_Witness ==
    /\ last.op = "deactivate_solver"
    /\ \E s \in DOMAIN solvers, i \in DOMAIN intents :
           /\ ~solvers[s].is_active
           /\ solvers[s].stake >= MinSolverStake
           /\ intents[i].status = "Created"
           /\ now < intents[i].expires_at
           /\ ChainsSupported(host, solvers[s].supported_chains,
                              intents[i].source_chain, intents[i].destination_chain)

\* C29: the passage of time alone never changes whether execute_intent,
\* settle_intent or fail_intent is accepted, for any caller and any intent,
\* before as well as after expires_at.
C29_ExpiryGatesOnlyMatch ==
    [][last'.op = "tick" =>
          \A c \in Accounts, i \in IntentIds :
              /\ ExecuteIntentAllowed(c, i) <=> ExecuteIntentAllowed(c, i)'
              /\ SettleIntentAllowed(c, i) <=> SettleIntentAllowed(c, i)'
              /\ FailIntentAllowed(c, i) <=> FailIntentAllowed(c, i)']_vars

\* An intent matched before its expiry has been executed at or after it
C29_Witness ==
    \E i \in DOMAIN intents :
        /\ last = Call("execute_intent", intents[i].solver, i)
        /\ intents[i].status = "Executed"
        /\ intents[i].executed_at >= intents[i].expires_at
        /\ intents[i].created_at < intents[i].expires_at

\* C30: a Matched intent keeps its status, its solver and its escrowed
\* deposit under every step except execute_intent or fail_intent on it by
\* its bound solver; whatever the step, nothing is paid out for it unless
\* that solver fails it.
C30_MatchedUntilBoundSolverActs ==
    [][\A i \in DOMAIN intents :
          intents[i].status = "Matched" =>
              \/ /\ last'.caller = intents[i].solver
                 /\ Accepted("execute_intent", i) \/ Accepted("fail_intent", i)
              \/ /\ intents'[i].status = "Matched"
                 /\ intents'[i].solver = intents[i].solver
                 /\ paid'[i] = paid[i]
                 /\ host = "solana" => escrow'[EscrowKey(i)] = escrow[EscrowKey(i)]]_vars

\* An intent is still Matched past its expiry while another registered
\* solver, the creator and the owner can call
C30_Witness ==
    \E i \in DOMAIN intents, c \in DOMAIN solvers :
        /\ intents[i].status = "Matched"
        /\ c # intents[i].solver
        /\ now >= intents[i].expires_at
        /\ last.op \notin {"match_intent", "tick"}
        /\ escrow[EscrowKey(i)] >= intents[i].source_amount

\* C31: a settlement raises the bound solver's reputation_score by exactly
\* 1, or leaves it at the ceiling of 1000 when it is already there; a
\* failure sets it to max(0, score - 5); no other step changes any
\* reputation_score.
C31_ReputationSteps ==
    [][\A c \in DOMAIN solvers :
          LET before == solvers[c]
              after == solvers'[c]
          IN  /\ c \in DOMAIN solvers'
              /\ IF after.successful_intents = before.successful_intents + 1
                 THEN after.reputation_score =
                          IF before.reputation_score < 1000
                          THEN before.reputation_score + 1 ELSE before.reputation_score
                 ELSE IF after.failed_intents = before.failed_intents + 1
                 THEN after.reputation_score =
                          IF before.reputation_score >= 5
                          THEN before.reputation_score - 5 ELSE 0
                 ELSE after.reputation_score = before.reputation_score]_vars

\* C32: every intent record has expires_at > created_at, whatever
\* ttl_seconds create_intent was called with.
C32_ExpiresAfterCreated ==
    \A i \in DOMAIN intents : intents[i].expires_at > intents[i].created_at

\* C33: an intent record, once created, exists in every later state and
\* its creator, source_amount, source_chain, destination_chain,
\* is_shielded, created_at and expires_at never change.
C33_IntentRecordsKept ==
    [][\A i \in DOMAIN intents :
          /\ i \in DOMAIN intents'
          /\ intents'[i].intent_id = intents[i].intent_id
          /\ intents'[i].creator = intents[i].creator
          /\ intents'[i].source_amount = intents[i].source_amount
          /\ intents'[i].source_chain = intents[i].source_chain
          /\ intents'[i].destination_chain = intents[i].destination_chain
          /\ intents'[i].is_shielded = intents[i].is_shielded
          /\ intents'[i].created_at = intents[i].created_at
          /\ intents'[i].expires_at = intents[i].expires_at]_vars

\* An intent created at time 0 has gone through its whole life and is
\* still on record, in a terminal status, at a later time
C33_Witness ==
    \E i \in DOMAIN intents :
        /\ intents[i].status \in {"Settled", "Failed"}
        /\ intents[i].created_at < now
        /\ intents[i].executed_at = now
        /\ last.op \in {"settle_intent", "fail_intent"}
        /\ last.id = i

\* C34: two calls of generate_privacy_proof whose (amount, blinding,
\* recipient_hash) differ in any component produce different commitments.
C34_CommitmentBinds ==
    calc.fn = "generate_privacy_proof" =>
        LET t1 == calc.args[1]
            t2 == calc.args[2]
        IN  <<t1[1], t1[2], t1[3]>> # <<t2[1], t2[2], t2[3]>> => calc.out[1][1] # calc.out[2][1]

\* An accepted match, execute, settle or fail on intent i
LifecycleStep(i) ==
    \/ Accepted("match_intent", i)
    \/ Accepted("execute_intent", i)
    \/ Accepted("settle_intent", i)
    \/ Accepted("fail_intent", i)

\* C35: an accepted match, execute, settle or fail on one intent leaves the
\* record of every other intent and what has been paid out for it
\* unchanged, and leaves the deposit of every other held intent in escrow.
C35_OtherIntentsUntouched ==
    [][\A i \in DOMAIN intents, j \in DOMAIN intents :
          (i # j /\ LifecycleStep(i)) =>
              /\ intents'[j] = intents[j]
              /\ paid'[j] = paid[j]
              /\ (Held(j) /\ escrow[EscrowKey(j)] >= intents[j].source_amount) =>
                     escrow'[EscrowKey(j)] >= intents[j].source_amount
              /\ host = "solana" => escrow'[EscrowKey(j)] = escrow[EscrowKey(j)]]_vars

\* The active-solver count the contract reports: config.active_solvers on
\* Solana, the active_solvers figure of get_stats on NEAR
ActiveSolversReported ==
    IF host = "solana" THEN config.active_solvers ELSE Len(index.active_solvers)

\* C36: the reported active-solver count equals the number of registered
\* solvers whose is_active flag is true.
C36_ActiveSolverCount ==
    ActiveSolversReported = Cardinality({c \in DOMAIN solvers : solvers[c].is_active})

\* The sum of total_volume over a set of solvers
RECURSIVE SolverVolume(_)
SolverVolume(S) ==
    IF S = {} THEN 0
    ELSE LET c == CHOOSE x \in S : TRUE
         IN  solvers[c].total_volume + SolverVolume(S \ {c})

\* The sum of source_amount over the intents of a set for which
\* settle_intent has succeeded (a settlement records whom it paid)
RECURSIVE SettledVolume(_)
SettledVolume(S) ==
    IF S = {} THEN 0
    ELSE LET i == CHOOSE x \in S : TRUE
         IN  (IF paid[i].reward_to # NoAccount THEN intents[i].source_amount ELSE 0)
                 + SettledVolume(S \ {i})

Occurrences(q, x) == Cardinality({k \in DOMAIN q : q[k] = x})

\* C38: on NEAR an intent_id is in intents_by_solver[s] exactly when the
\* intent's solver is s, and then exactly once; each intent_id is exactly
\* once in intents_by_creator of its creator, and in no other creator's.
C38_IndexVectors ==
    host = "near" =>
        /\ \A a \in Accounts, i \in IntentIds :
               /\ Occurrences(index.intents_by_solver[a], i) =
                      IF i \in DOMAIN intents /\ intents[i].solver = a THEN 1 ELSE 0
               /\ Occurrences(index.intents_by_creator[a], i) =
                      IF i \in DOMAIN intents /\ intents[i].creator = a THEN 1 ELSE 0

\* On NEAR an intent has been matched and taken to a terminal status, with
\* a second solver registered
C38_Witness ==
    /\ host = "near"
    /\ Cardinality(DOMAIN solvers) = 2
    /\ \E i \in DOMAIN intents :
           /\ intents[i].status \in {"Settled", "Failed"}
           /\ index.intents_by_solver[intents[i].solver] = <<i>>
           /\ index.intents_by_creator[intents[i].creator] = <<i>>

\* C39: on Solana, for every u64 source_amount and every fee of at most
\* 1000 bps, the fee computation of settle_intent does not return
\* Overflow: the product fits u128, the fee fits u64 and is at most
\* source_amount.
C39_SolanaFeeNeverOverflows ==
    calc.fn = "settle_intent" =>
        LET amount == calc.args[1]
            bps == calc.args[2]
        IN  /\ amount * bps < U128Modulus
            /\ (amount * bps) \div 10000 < U64Modulus
            /\ calc.out[1]
            /\ calc.out[2] = (amount * bps) \div 10000
            /\ calc.out[2] <= amount
            /\ calc.out[2] + calc.out[3] = amount

\* The fee of the largest u64 amount at the largest fee has been computed
C39_Witness ==
    /\ calc.fn = "settle_intent"
    /\ calc.args = <<U64Modulus - 1, 1000>>
    /\ calc.out[1]
    /\ calc.out[2] > 0

====
